---------------------------- MODULE Spec2Model ----------------------------
(***************************************************************************)
(* A model of the configuration validator of gitlab-homelab:               *)
(*   src/validation_result.py                  ValidationResult            *)
(*   src/configs/validation/validate_config.py the validation run          *)
(*                                                                         *)
(* Three specifications share the module:                                  *)
(*   SpecVR   one ValidationResult under arbitrary calls of its methods    *)
(*   SpecSort ConfigSchemaValidator.validate on arbitrary yielded errors   *)
(*   Spec     one run of main()                                            *)
(*                                                                         *)
(* validate_config.py opens a `try:` at line 113 that has no except or     *)
(* finally clause.  The model reads the block as written: its three        *)
(* statements run in order and nothing catches what they raise.            *)
(***************************************************************************)
EXTENDS Integers, Sequences, FiniteSets, TLC

VARIABLES
    result,              \* SpecVR: the ValidationResult under test
    yielded,             \* SpecSort: what Draft7Validator.iter_errors yields
    validated,           \* SpecSort: the outcome of ConfigSchemaValidator.validate
    pc,                  \* Spec: position of main()
    idx,                 \* Spec: index into config_types of the loop
    schema_file,         \* Spec: what the run found for the schema file
    schema,              \* Spec: what load_schema returned
    files,               \* Spec: what the run found for each type's file
    config,              \* Spec: the document of the current iteration
    validation_results,  \* Spec: main's validation_results list
    trace,               \* Spec: history of the steps taken, in order
    summary,             \* Spec: what generate_summary reported
    exit_code,           \* Spec: process exit status, NoExit while running
    detector,            \* SpecK8s: the KubernetesDetector's attributes
    kpc,                 \* SpecK8s: position of detect_k8s.main()
    calls,               \* SpecK8s: the detector methods invoked, in order
    kresults,            \* SpecK8s: the dictionary detect() returned
    kexit,               \* SpecK8s: what main() returned, NoExit before
    checker,             \* SpecPolicies: the NetworkPolicyChecker
    caller,              \* SpecPolicies: who called apply_policies
    ppc,                 \* SpecPolicies: position in apply_network_policies
    rule_status,         \* SpecPolicies: what check_firewall_rules returned
    policy_success,      \* SpecPolicies: the local `success` of apply_policies
    probes,              \* SpecPolicies: the check_port_open calls so far
    applied,             \* SpecPolicies: what apply_policies returned
    pexit                \* SpecPolicies: what main() returned, NoExit before

vars == <<result, yielded, validated, pc, idx, schema_file, schema, files, config,
          validation_results, trace, summary, exit_code,
          detector, kpc, calls, kresults, kexit,
          checker, caller, ppc, rule_status, policy_success, probes, applied,
          pexit>>

vrVars   == <<result>>
sortVars == <<yielded, validated>>
k8sVars  == <<detector, kpc, calls, kresults, kexit>>
polVars  == <<checker, caller, ppc, rule_status, policy_success, probes,
              applied, pexit>>
extVars  == <<k8sVars, polVars>>
runVars  == <<pc, idx, schema_file, schema, files, config, validation_results, trace,
              summary, exit_code>>

---------------------------------------------------------------------------
(* Bounds of the model.                                                    *)

MaxErrors == 3
MaxWarnings == 2
MaxViolations == 3
MaxResults == 2
MaxCalls == 2

---------------------------------------------------------------------------
(* src/validation_result.py                                                *)

ConfigType == {"network", "email", "domains", "sso"}

ValidationStatus == {"valid", "invalid", "pending"}

\* An optional list argument: None, or a list.
NoneArg == [some |-> FALSE, val |-> <<>>]
SomeArg(l) == [some |-> TRUE, val |-> l]

\* Python's `x or []` for x a list or None: x when x is a non-empty list.
OrEmptyList(x) == IF x.some /\ x.val # <<>> THEN x.val ELSE <<>>

ValidationResultNew(config_type, config_path, status, errors, security_warnings) ==
    [config_type       |-> config_type,
     status            |-> status,
     errors            |-> OrEmptyList(errors),
     security_warnings |-> OrEmptyList(security_warnings),
     config_path       |-> config_path]

\* The construction with the defaults of the signature, as validate_config does it.
ValidationResultDefault(config_type, config_path) ==
    ValidationResultNew(config_type, config_path, "pending", NoneArg, NoneArg)

add_error(r, error) ==
    [r EXCEPT !.errors = Append(@, error), !.status = "invalid"]

\* A variant of add_security_warning that also marks the result invalid,
\* as add_error does.
add_security_warning_invalidates(r, warning) ==
    [r EXCEPT !.security_warnings = Append(@, warning), !.status = "invalid"]

add_security_warning(r, warning) ==
    [r EXCEPT !.security_warnings = Append(@, warning)]

is_valid(r) == r.status = "valid"

mark_as_valid(r) == [r EXCEPT !.status = "valid"]


---------------------------------------------------------------------------
(* Document paths of schema violations: jsonschema's ValidationError.path, *)
(* a deque of property names (str) and array indices (int).                *)

StrSeg(s) == [k |-> "str", s |-> s]
IntSeg(n) == [k |-> "int", n |-> n]

\* ord() of the characters the model's property names are written with.
CodePoint(c) ==
    CASE c = "0" -> 48
      [] c = "1" -> 49
      [] c = "_" -> 95
      [] c = "a" -> 97
      [] c = "b" -> 98
      [] c = "c" -> 99

\* Python's str.__lt__: by code point, a proper prefix first.
RECURSIVE StrLess(_, _)
StrLess(a, b) ==
    IF Len(b) = 0 THEN FALSE
    ELSE IF Len(a) = 0 THEN TRUE
    ELSE IF Head(a) = Head(b) THEN StrLess(Tail(a), Tail(b))
    ELSE CodePoint(Head(a)) < CodePoint(Head(b))

\* `a < b` on two segments raises TypeError between an int and a str.
SegLessRaises(a, b) == a.k # b.k

SegLess(a, b) ==
    IF a.k = "int" THEN a.n < b.n ELSE StrLess(a.s, b.s)

Min2(a, b) == IF a < b THEN a ELSE b

\* deque.__lt__: the first index at which the items differ (0: none up to
\* the shorter length).
FirstDiff(p, q) ==
    LET D == {i \in 1..Min2(Len(p), Len(q)) : p[i] # q[i]}
    IN  IF D = {} THEN 0 ELSE CHOOSE i \in D : \A j \in D : i <= j

PathLessRaises(p, q) ==
    LET i == FirstDiff(p, q) IN i # 0 /\ SegLessRaises(p[i], q[i])

PathLess(p, q) ==
    LET i == FirstDiff(p, q)
    IN  IF i = 0 THEN Len(p) < Len(q) ELSE SegLess(p[i], q[i])

---------------------------------------------------------------------------
(* ConfigSchemaValidator.validate: sorted(iter_errors(config),             *)
(* key=lambda e: e.path).  A call either returns a value or raises.        *)

Returned(v) == [raised |-> "none", value |-> v]
Raised(e)   == [raised |-> e, value |-> <<>>]

\* One insertion of the stable sort: x goes after the last element whose
\* key is not greater.  The comparisons made are key(x) < key(l[i]) from
\* the right end down to the first that is false.
RECURSIVE InsertByPath(_, _)
InsertByPath(l, x) ==
    IF l = <<>> THEN Returned(<<x>>)
    ELSE LET last == l[Len(l)]
         IN  IF PathLessRaises(x.path, last.path) THEN Raised("TypeError")
             ELSE IF PathLess(x.path, last.path)
             THEN LET r == InsertByPath(SubSeq(l, 1, Len(l) - 1), x)
                  IN  IF r.raised # "none" THEN r
                      ELSE Returned(Append(r.value, last))
             ELSE Returned(Append(l, x))

\* sorted(errs, key=path): stable; raises what a comparison raises.
RECURSIVE SortedByPath(_)
SortedByPath(errs) ==
    IF errs = <<>> THEN Returned(<<>>)
    ELSE LET r == SortedByPath(SubSeq(errs, 1, Len(errs) - 1))
         IN  IF r.raised # "none" THEN r
             ELSE InsertByPath(r.value, errs[Len(errs)])

validate(errs) == SortedByPath(errs)


---------------------------------------------------------------------------
(* Python values, as yaml.safe_load produces them.  A dict is the list of  *)
(* its items in insertion order, with distinct keys.                       *)

PyNone     == [t |-> "none"]
PyBool(b)  == [t |-> "bool", b |-> b]
PyInt(n)   == [t |-> "int", n |-> n]
PyStr(s)   == [t |-> "str", s |-> s]
PyList(l)  == [t |-> "list", l |-> l]
PyDict(it) == [t |-> "dict", items |-> it]
Item(k, v) == [key |-> k, val |-> v]

EmptyDict == PyDict(<<>>)

\* bool(v)
Truthy(v) ==
    CASE v.t = "none" -> FALSE
      [] v.t = "bool" -> v.b
      [] v.t = "int"  -> v.n # 0
      [] v.t = "str"  -> v.s # ""
      [] v.t = "list" -> v.l # <<>>
      [] v.t = "dict" -> v.items # <<>>

\* d.get(key, default) for d a dict
DictGet(d, key, default) ==
    LET I == {i \in 1..Len(d.items) : d.items[i].key = key}
    IN  IF I = {} THEN default ELSE d.items[CHOOSE i \in I : TRUE].val

\* sep.join(parts)
RECURSIVE Join(_, _)
Join(sep, parts) ==
    IF parts = <<>> THEN ""
    ELSE IF Len(parts) = 1 THEN parts[1]
    ELSE parts[1] \o sep \o Join(sep, Tail(parts))

\* repr(v)
RECURSIVE PyRepr(_)
PyRepr(v) ==
    CASE v.t = "none" -> "None"
      [] v.t = "bool" -> IF v.b THEN "True" ELSE "False"
      [] v.t = "int"  -> ToString(v.n)
      [] v.t = "str"  -> "'" \o v.s \o "'"
      [] v.t = "list" ->
            "[" \o Join(", ", [i \in 1..Len(v.l) |-> PyRepr(v.l[i])]) \o "]"
      [] v.t = "dict" ->
            "{" \o Join(", ", [i \in 1..Len(v.items) |->
                     "'" \o v.items[i].key \o "': " \o PyRepr(v.items[i].val)])
                \o "}"

\* str(v): a str is itself, anything else is its repr.
PyStrOf(v) == IF v.t = "str" THEN v.s ELSE PyRepr(v)

\* `sub in s` for two strings
Contains(sub, s) ==
    \E i \in 1..(Len(s) - Len(sub) + 1) : SubSeq(s, i, i + Len(sub) - 1) = sub

---------------------------------------------------------------------------
(* validate_config.py: load_schema, load_yaml_config                       *)

\* What main holds for the schema: not loaded yet, or the parsed JSON.
\* A parsed schema is a JSON object with or without a "definitions" member
\* (whose keys are `definitions`), or a JSON value that is no object.
SchemaUnloaded == [kind |-> "unloaded", has_definitions |-> FALSE,
                   definitions |-> {}]
SchemaObject(has, defs) ==
    [kind |-> "object", has_definitions |-> has, definitions |-> defs]
SchemaOther == [kind |-> "other", has_definitions |-> FALSE, definitions |-> {}]

SchemaDocuments ==
    {SchemaObject(TRUE, d) : d \in SUBSET ConfigType}
        \cup {SchemaObject(FALSE, {}), SchemaOther}

\* load_schema(path) on a file in state f: the parsed document, or
\* sys.exit(1) on FileNotFoundError, JSONDecodeError and any other Exception.
SchemaFileStates == {"missing", "badjson", "unreadable", "ok"}

\* A variant of load_schema that returns an empty schema where it should
\* exit.
load_schema_swallow(f, doc) ==
    IF f = "ok" THEN Returned(doc) ELSE Returned(SchemaObject(FALSE, {}))

load_schema(f, doc) ==
    IF f = "ok" THEN Returned(doc) ELSE Raised("SystemExit")

\* load_yaml_config(path) on a file in state f: the parsed document, or
\* sys.exit(1) on FileNotFoundError, YAMLError and any other Exception.
ConfigFileStates == {"vanished", "malformed", "unreadable", "ok"}

\* A variant of load_yaml_config that returns a document for a file it
\* could not parse.
load_yaml_config_swallow(f, doc) ==
    IF f \in {"ok", "malformed"} THEN Returned(doc) ELSE Raised("SystemExit")

load_yaml_config(f, doc) ==
    IF f = "ok" THEN Returned(doc) ELSE Raised("SystemExit")


---------------------------------------------------------------------------
(* validate_config.py: validate_config                                     *)

\* A schema violation: jsonschema's ValidationError, its path and message.
Violation(path, message) == [path |-> path, message |-> message]

\* A loaded configuration document: its value, and what
\* Draft7Validator(definition).iter_errors(value) yields for it, in the
\* validator's own iteration order.
Document(value, violations) == [value |-> value, violations |-> violations]

\* str(p) for a path segment p
SegStr(p) == IF p.k = "int" THEN ToString(p.n) ELSE p.s

\* f"Error at {' -> '.join(str(p) for p in error.path)}: {error.message}"
RenderError(error) ==
    "Error at "
        \o Join(" -> ", [i \in 1..Len(error.path) |-> SegStr(error.path[i])])
        \o ": " \o error.message

\* A variant of AddErrors that records the first violation only.
AddErrorsFirstOnly(r, errors) ==
    IF errors = <<>> THEN r ELSE add_error(r, RenderError(Head(errors)))

\* for error in errors: result.add_error(message)
RECURSIVE AddErrors(_, _)
AddErrors(r, errors) ==
    IF errors = <<>> THEN r
    ELSE AddErrors(add_error(r, RenderError(Head(errors))), Tail(errors))

\* A variant of SchemaDefinitionLookup that goes on without a definition
\* (schema['definitions'].get(config_type, {})).
SchemaDefinitionLookupLenient(sch, config_type) ==
    IF sch.kind # "object" THEN Raised("TypeError")
    ELSE IF ~sch.has_definitions THEN Raised("KeyError")
    ELSE Returned(config_type)

\* schema['definitions'][config_type]
SchemaDefinitionLookup(sch, config_type) ==
    IF sch.kind # "object" THEN Raised("TypeError")
    ELSE IF ~sch.has_definitions THEN Raised("KeyError")
    ELSE IF config_type \notin sch.definitions THEN Raised("KeyError")
    ELSE Returned(config_type)

\* A variant of MarkIfNoErrors that marks the result valid whatever was
\* recorded.
MarkAlways(r, errors) == mark_as_valid(r)

\* if not errors: result.mark_as_valid()
MarkIfNoErrors(r, errors) == IF errors = <<>> THEN mark_as_valid(r) ELSE r

validate_config(doc, sch, config_type, config_path) ==
    IF config_type \notin ConfigType THEN Raised("ValueError")
    ELSE LET fresh  == ValidationResultDefault(config_type, config_path)
             def    == SchemaDefinitionLookup(sch, config_type)
             errors == validate(doc.violations)
         IN  IF def.raised # "none" THEN Raised(def.raised)
             ELSE IF errors.raised # "none" THEN Raised(errors.raised)
             ELSE Returned(MarkIfNoErrors(AddErrors(fresh, errors.value),
                                          errors.value))

---------------------------------------------------------------------------
(* validate_config.py: check_security_requirements                         *)

\* A call that mutates its result and then returns or raises: the result
\* as the call left it, and what it raised.
Left(r, e) == [raised |-> e, value |-> r]

\* A variant of NetworkCheck that warns once for each matching value.
RECURSIVE WarnPerValue(_, _)
WarnPerValue(items, r) ==
    IF items = <<>> THEN r
    ELSE WarnPerValue(Tail(items),
            IF Contains("0.0.0.0/0", PyStrOf(Head(items).val))
            THEN add_security_warning(r,
                     "Found overly permissive CIDR block (0.0.0.0/0)")
            ELSE r)

NetworkCheckPerValue(cfg, r) ==
    IF cfg.t # "dict" THEN Left(r, "AttributeError")
    ELSE Left(WarnPerValue(cfg.items, r), "none")

NetworkCheck(cfg, r) ==
    IF cfg.t # "dict" THEN Left(r, "AttributeError")
    ELSE IF \E i \in 1..Len(cfg.items) :
                Contains("0.0.0.0/0", PyStrOf(cfg.items[i].val))
         THEN Left(add_security_warning(r,
                     "Found overly permissive CIDR block (0.0.0.0/0)"), "none")
         ELSE Left(r, "none")

\* A variant of EmailCheck that takes a missing encryption field for
\* "none" (smtp.get('encryption', 'none')).
EmailCheckDefaultNone(cfg, r) ==
    IF cfg.t # "dict" THEN Left(r, "AttributeError")
    ELSE LET smtp == DictGet(cfg, "smtp", EmptyDict)
         IN  IF smtp.t # "dict" THEN Left(r, "AttributeError")
             ELSE IF DictGet(smtp, "encryption", PyStr("none")) = PyStr("none")
             THEN Left(add_security_warning(r,
                         "SMTP is configured without encryption"), "none")
             ELSE Left(r, "none")

EmailCheck(cfg, r) ==
    IF cfg.t # "dict" THEN Left(r, "AttributeError")
    ELSE LET smtp == DictGet(cfg, "smtp", EmptyDict)
         IN  IF smtp.t # "dict" THEN Left(r, "AttributeError")
             ELSE IF DictGet(smtp, "encryption", PyNone) = PyStr("none")
             THEN Left(add_security_warning(r,
                         "SMTP is configured without encryption"), "none")
             ELSE Left(r, "none")

\* A variant of DomainsCheck that looks at OCSP stapling only when HSTS is
\* enabled (`elif` for the second `if`).
DomainsCheckElif(cfg, r) ==
    IF cfg.t # "dict" THEN Left(r, "AttributeError")
    ELSE LET ssl == DictGet(cfg, "ssl", EmptyDict)
         IN  IF ssl.t # "dict" THEN Left(r, "AttributeError")
             ELSE IF ~Truthy(DictGet(ssl, "hsts_enabled", PyNone))
             THEN Left(add_security_warning(r, "HSTS is not enabled"), "none")
             ELSE IF ~Truthy(DictGet(ssl, "ocsp_stapling", PyNone))
             THEN Left(add_security_warning(r, "OCSP stapling is not enabled"),
                       "none")
             ELSE Left(r, "none")

DomainsCheck(cfg, r) ==
    IF cfg.t # "dict" THEN Left(r, "AttributeError")
    ELSE LET ssl == DictGet(cfg, "ssl", EmptyDict)
         IN  IF ssl.t # "dict" THEN Left(r, "AttributeError")
             ELSE LET r1 == IF ~Truthy(DictGet(ssl, "hsts_enabled", PyNone))
                            THEN add_security_warning(r, "HSTS is not enabled")
                            ELSE r
                      r2 == IF ~Truthy(DictGet(ssl, "ocsp_stapling", PyNone))
                            THEN add_security_warning(r1,
                                     "OCSP stapling is not enabled")
                            ELSE r1
                  IN  Left(r2, "none")

\* session.get('lifetime', 0) > 86400: an int or a bool compares, anything
\* else raises TypeError.
LifetimeRaises(v) == v.t \notin {"int", "bool"}
\* A variant of LifetimeExceeds that compares with >=.
LifetimeAtLeast(v) == v.t = "int" /\ v.n >= 86400

LifetimeExceeds(v) == v.t = "int" /\ v.n > 86400

SsoCheck(cfg, r) ==
    IF cfg.t # "dict" THEN Left(r, "AttributeError")
    ELSE LET auth == DictGet(cfg, "authentication", EmptyDict)
         IN  IF auth.t # "dict" THEN Left(r, "AttributeError")
             ELSE LET mfa == DictGet(auth, "mfa", EmptyDict)
                  IN  IF mfa.t # "dict" THEN Left(r, "AttributeError")
                      ELSE LET r1 == IF ~Truthy(DictGet(mfa, "enabled", PyNone))
                                     THEN add_security_warning(r,
                                              "MFA is not enabled for SSO")
                                     ELSE r
                               session == DictGet(auth, "session", EmptyDict)
                               lifetime == IF session.t = "dict"
                                           THEN DictGet(session, "lifetime", PyInt(0))
                                           ELSE PyNone
                           IN  IF session.t # "dict"
                               THEN Left(r1, "AttributeError")
                               ELSE IF LifetimeRaises(lifetime)
                               THEN Left(r1, "TypeError")
                               ELSE IF LifetimeExceeds(lifetime)
                               THEN Left(add_security_warning(r1,
                                           "Session lifetime exceeds 24 hours"),
                                         "none")
                               ELSE Left(r1, "none")

check_security_requirements(cfg, r) ==
    CASE r.config_type = "network" -> NetworkCheck(cfg, r)
      [] r.config_type = "email"   -> EmailCheck(cfg, r)
      [] r.config_type = "domains" -> DomainsCheck(cfg, r)
      [] r.config_type = "sso"     -> SsoCheck(cfg, r)
      [] OTHER                     -> Left(r, "none")

---------------------------------------------------------------------------
(* validate_config.py: generate_summary                                    *)

NoSummary == [generated |-> FALSE]

\* sum(1 for r in validation_results if not r.is_valid())
RECURSIVE CountInvalid(_)
CountInvalid(rs) ==
    IF rs = <<>> THEN 0
    ELSE (IF is_valid(Head(rs)) THEN 0 ELSE 1) + CountInvalid(Tail(rs))

RECURSIVE TotalWarnings(_)
TotalWarnings(rs) ==
    IF rs = <<>> THEN 0
    ELSE Len(Head(rs).security_warnings) + TotalWarnings(Tail(rs))

\* errors_by_type[config_type] = result.errors, for the results with errors;
\* a later result of the same type replaces an earlier one.
ErrorsByType(rs) ==
    LET T == {rs[i].config_type : i \in {j \in 1..Len(rs) : rs[j].errors # <<>>}}
    IN  [t \in T |->
            rs[CHOOSE i \in 1..Len(rs) :
                  /\ rs[i].config_type = t /\ rs[i].errors # <<>>
                  /\ \A j \in 1..Len(rs) :
                        (rs[j].config_type = t /\ rs[j].errors # <<>>) => j <= i
              ].errors]

\* The results listed under "Security Warnings Summary", in order.
RECURSIVE WarningsListed(_)
WarningsListed(rs) ==
    IF rs = <<>> THEN <<>>
    ELSE (IF Head(rs).security_warnings # <<>>
          THEN <<[config_type |-> Head(rs).config_type,
                  warnings |-> Head(rs).security_warnings]>>
          ELSE <<>>) \o WarningsListed(Tail(rs))

generate_summary(rs) ==
    [generated        |-> TRUE,
     total_configs    |-> Len(rs),
     invalid_configs  |-> CountInvalid(rs),
     total_warnings   |-> TotalWarnings(rs),
     errors_by_type   |-> ErrorsByType(rs),
     warnings_listed  |-> WarningsListed(rs)]


---------------------------------------------------------------------------
(* The inputs the specifications draw from.                                *)

RECURSIVE SeqsUpTo(_, _)
SeqsUpTo(S, n) ==
    IF n = 0 THEN {<<>>}
    ELSE LET shorter == SeqsUpTo(S, n - 1)
         IN  shorter \cup {Append(q, x) : q \in shorter, x \in S}

ErrorMessages   == {"e1", "e2"}
WarningMessages == {"w1", "w2"}

vRoot1 == Violation(<<>>, "'a' is a required property")
vRoot2 == Violation(<<>>, "'b' is a required property")
vA     == Violation(<<StrSeg("a")>>, "1 is not of type 'string'")
vA0    == Violation(<<StrSeg("a"), IntSeg(0)>>, "2 is not of type 'string'")
vA1    == Violation(<<StrSeg("a"), IntSeg(1)>>, "3 is not of type 'string'")
vAb    == Violation(<<StrSeg("ab")>>, "4 is not of type 'string'")
vB     == Violation(<<StrSeg("b")>>, "5 is not of type 'string'")
vInt1  == Violation(<<IntSeg(1)>>, "6 is not of type 'string'")

\* SpecSort: the violations iter_errors may yield, in any order.
SortViolations == {vRoot1, vRoot2, vA, vA0, vA1, vAb, vB, vInt1}

\* Spec: what iter_errors yields for the documents of a run: nothing, one
\* violation, two out of path order, and an int key beside a str key.
RunYields == {<<>>, <<vA>>, <<vB, vRoot1>>, <<vInt1, vA>>}

TemplatePath(t) == "templates/" \o t \o ".yaml.template"

RunValues(t) ==
    CASE t = "network" ->
            {PyDict(<<Item("allowed_ranges", PyList(<<PyStr("0.0.0.0/0")>>))>>),
             PyDict(<<Item("cidr", PyStr("10.0.0.0/8"))>>),
             PyNone}
      [] t = "email" ->
            {PyDict(<<Item("smtp", PyDict(<<Item("encryption", PyStr("none"))>>))>>),
             PyDict(<<Item("smtp", PyDict(<<Item("encryption", PyStr("tls"))>>))>>),
             PyDict(<<Item("smtp", PyNone)>>)}
      [] t = "domains" ->
            {PyDict(<<Item("ssl", EmptyDict)>>),
             PyDict(<<Item("ssl", PyDict(<<Item("hsts_enabled", PyBool(TRUE)),
                                           Item("ocsp_stapling", PyBool(TRUE))>>))>>),
             PyList(<<>>)}
      [] t = "sso" ->
            {PyDict(<<Item("authentication",
                        PyDict(<<Item("mfa", PyDict(<<Item("enabled", PyBool(TRUE))>>)),
                                 Item("session", PyDict(<<Item("lifetime", PyInt(90000))>>))>>))>>),
             EmptyDict,
             PyDict(<<Item("authentication",
                        PyDict(<<Item("session", PyDict(<<Item("lifetime", PyStr("1d"))>>))>>))>>)}

RunDocuments(t) == {Document(v, y) : v \in RunValues(t), y \in RunYields}

---------------------------------------------------------------------------
(* SpecVR: one ValidationResult, constructed as validate_config constructs *)
(* it, under any sequence of calls of its mutating methods.                *)

IdleResult == ValidationResultDefault("network", "")
NotValidated == [raised |-> "pending", value |-> <<>>]
NoConfig == [state |-> "none"]
NoExit == 0 - 1
\* A variant of config_types that names a type twice.
config_types_repeated == <<"network", "email", "email", "domains", "sso">>

\* A variant of config_types with its first two entries exchanged.
config_types_swapped == <<"email", "network", "domains", "sso">>

config_types == <<"network", "email", "domains", "sso">>

SortIdle == yielded = <<>> /\ validated = NotValidated

\* KubernetesDetector.__init__
DetectorNew ==
    [k8s_distro |-> PyStr(""), k8s_version |-> PyStr(""),
     k8s_cluster_info |-> PyStr(""), k8s_current_context |-> PyStr(""),
     custom_kubectl_path |-> PyStr("")]

NoResults == <<>>

K8sIdle ==
    /\ detector = DetectorNew
    /\ kpc = "idle"
    /\ calls = <<>>
    /\ kresults = NoResults
    /\ kexit = NoExit

\* NetworkPolicyChecker.__init__
CheckerNew == [firewall_rules |-> <<>>, network_segments |-> <<>>]

PolicyIdle ==
    /\ checker = CheckerNew
    /\ caller = "none"
    /\ ppc = "idle"
    /\ rule_status = <<>>
    /\ policy_success = TRUE
    /\ probes = <<>>
    /\ applied = "pending"
    /\ pexit = NoExit

ExtIdle == K8sIdle /\ PolicyIdle

RunIdle ==
    /\ pc = "idle"
    /\ idx = 1
    /\ schema_file = "unread"
    /\ schema = SchemaUnloaded
    /\ files = [t \in ConfigType |-> "unseen"]
    /\ config = NoConfig
    /\ validation_results = <<>>
    /\ trace = <<>>
    /\ summary = NoSummary
    /\ exit_code = NoExit

VRInit ==
    /\ result \in {ValidationResultDefault(t, TemplatePath(t)) : t \in ConfigType}
    /\ SortIdle
    /\ RunIdle
    /\ ExtIdle

VRAddError ==
    /\ Len(result.errors) < MaxErrors
    /\ \E e \in ErrorMessages : result' = add_error(result, e)
    /\ UNCHANGED <<sortVars, runVars, extVars>>

VRAddSecurityWarning ==
    /\ Len(result.security_warnings) < MaxWarnings
    /\ \E w \in WarningMessages : result' = add_security_warning(result, w)
    /\ UNCHANGED <<sortVars, runVars, extVars>>

VRMarkAsValid ==
    /\ result' = mark_as_valid(result)
    /\ UNCHANGED <<sortVars, runVars, extVars>>

VRNext == VRAddError \/ VRAddSecurityWarning \/ VRMarkAsValid

SpecVR == VRInit /\ [][VRNext]_vars

---------------------------------------------------------------------------
(* SpecSort: ConfigSchemaValidator.validate on whatever iter_errors yields.*)

SortInit ==
    /\ yielded \in SeqsUpTo(SortViolations, MaxViolations)
    /\ validated = NotValidated
    /\ result = IdleResult
    /\ RunIdle
    /\ ExtIdle

SortValidate ==
    /\ validated = NotValidated
    /\ validated' = validate(yielded)
    /\ UNCHANGED <<yielded, vrVars, runVars, extVars>>

SortNext == SortValidate

SpecSort == SortInit /\ [][SortNext]_vars


---------------------------------------------------------------------------
(* Spec: one run of main().  The file system is read when the run reaches  *)
(* it: the schema file at load_schema, each template at config_path.exists *)
(* and again at load_yaml_config.                                          *)

cur == config_types[idx]

Step(step, t) == [step |-> step, type |-> t]

\* The for loop's next iteration, or the statement after the loop.
LoopNext(i) == IF i > Len(config_types) THEN "summary" ELSE "exists"

\* A variant of SkipNext that leaves the loop (`break` for `continue`).
SkipNextBreak(i) == "summary"

\* `continue` after a missing file: on to the iteration after iteration i.
SkipNext(i) == LoopNext(i + 1)

\* A variant of ExitStatus that fails a run with nothing to validate.
ExitStatusNonEmpty(rs) ==
    IF rs # <<>> /\ \A i \in 1..Len(rs) : is_valid(rs[i]) THEN 0 ELSE 1

\* sys.exit(0 if all(result.is_valid() for result in validation_results) else 1)
ExitStatus(rs) == IF \A i \in 1..Len(rs) : is_valid(rs[i]) THEN 0 ELSE 1

Init ==
    /\ pc = "load_schema"
    /\ idx = 1
    /\ schema_file = "unread"
    /\ schema = SchemaUnloaded
    /\ files = [t \in ConfigType |-> "unseen"]
    /\ config = NoConfig
    /\ validation_results = <<>>
    /\ trace = <<>>
    /\ summary = NoSummary
    /\ exit_code = NoExit
    /\ result = IdleResult
    /\ SortIdle
    /\ ExtIdle

\* schema = load_schema(str(schema_path))
LoadSchema ==
    /\ pc = "load_schema"
    /\ \E f \in SchemaFileStates, doc \in SchemaDocuments :
          LET r == load_schema(f, doc)
          IN  /\ schema_file' = f
              /\ IF r.raised # "none"
                 THEN /\ pc' = "aborted"
                      /\ exit_code' = 1
                      /\ UNCHANGED schema
                 ELSE /\ schema' = r.value
                      /\ pc' = LoopNext(idx)
                      /\ UNCHANGED exit_code
    /\ UNCHANGED <<idx, files, config, validation_results, trace, summary,
                   vrVars, sortVars, extVars>>

\* if not config_path.exists(): logging.warning(...); continue
Exists ==
    /\ pc = "exists"
    /\ \E present \in BOOLEAN :
          IF present
          THEN /\ pc' = "load"
               /\ UNCHANGED <<idx, files, trace>>
          ELSE /\ files' = [files EXCEPT ![cur] = "missing"]
               /\ trace' = Append(trace, Step("skip", cur))
               /\ idx' = idx + 1
               /\ pc' = SkipNext(idx)
    /\ UNCHANGED <<schema_file, schema, config, validation_results, summary, exit_code,
                   vrVars, sortVars, extVars>>

\* config = load_yaml_config(str(config_path))
Load ==
    /\ pc = "load"
    /\ \E f \in ConfigFileStates, doc \in RunDocuments(cur) :
          LET r == load_yaml_config(f, doc)
          IN  /\ files' = [files EXCEPT ![cur] = IF f = "ok" THEN "loaded" ELSE f]
              /\ IF r.raised # "none"
                 THEN /\ pc' = "aborted"
                      /\ exit_code' = 1
                      /\ UNCHANGED config
                 ELSE /\ config' = r.value
                      /\ pc' = "validate"
                      /\ UNCHANGED exit_code
    /\ trace' = Append(trace, Step("load", cur))
    /\ UNCHANGED <<idx, schema_file, schema, validation_results, summary,
                   vrVars, sortVars, extVars>>

\* result = validate_config(config, schema, config_type, str(config_path))
\* validation_results.append(result)
Validate ==
    /\ pc = "validate"
    /\ LET r == validate_config(config, schema, cur, TemplatePath(cur))
       IN  IF r.raised # "none"
           THEN /\ pc' = "raised"
                /\ exit_code' = 1
                /\ UNCHANGED validation_results
           ELSE /\ validation_results' = Append(validation_results, r.value)
                /\ pc' = "security"
                /\ UNCHANGED exit_code
    /\ trace' = Append(trace, Step("validate", cur))
    /\ UNCHANGED <<idx, schema_file, schema, files, config, summary,
                   vrVars, sortVars, extVars>>

\* A variant of Security that checks only the results that are valid
\* (`if result.is_valid(): check_security_requirements(config, result)`).
SecuritySkipsInvalid ==
    /\ pc = "security"
    /\ LET n == Len(validation_results)
           r == check_security_requirements(config.value, validation_results[n])
       IN  IF ~is_valid(validation_results[n])
           THEN /\ idx' = idx + 1
                /\ pc' = LoopNext(idx + 1)
                /\ UNCHANGED <<validation_results, exit_code, trace>>
           ELSE /\ validation_results' = [validation_results EXCEPT ![n] = r.value]
                /\ trace' = Append(trace, Step("security", cur))
                /\ IF r.raised # "none"
                   THEN /\ pc' = "raised"
                        /\ exit_code' = 1
                        /\ UNCHANGED idx
                   ELSE /\ idx' = idx + 1
                        /\ pc' = LoopNext(idx + 1)
                        /\ UNCHANGED exit_code
    /\ UNCHANGED <<schema_file, schema, files, config, summary, vrVars, sortVars, extVars>>

\* check_security_requirements(config, result), then the logging of the
\* result; `result` is the object appended last to validation_results.
Security ==
    /\ pc = "security"
    /\ LET n == Len(validation_results)
           r == check_security_requirements(config.value, validation_results[n])
       IN  /\ validation_results' = [validation_results EXCEPT ![n] = r.value]
           /\ IF r.raised # "none"
              THEN /\ pc' = "raised"
                   /\ exit_code' = 1
                   /\ UNCHANGED idx
              ELSE /\ idx' = idx + 1
                   /\ pc' = LoopNext(idx + 1)
                   /\ UNCHANGED exit_code
    /\ trace' = Append(trace, Step("security", cur))
    /\ UNCHANGED <<schema_file, schema, files, config, summary, vrVars, sortVars, extVars>>

\* generate_summary(validation_results)
Summary ==
    /\ pc = "summary"
    /\ summary' = generate_summary(validation_results)
    /\ pc' = "exit"
    /\ UNCHANGED <<idx, schema_file, schema, files, config, validation_results, trace,
                   exit_code, vrVars, sortVars, extVars>>

\* sys.exit(...)
Exit ==
    /\ pc = "exit"
    /\ exit_code' = ExitStatus(validation_results)
    /\ pc' = "exited"
    /\ UNCHANGED <<idx, schema_file, schema, files, config, validation_results, trace,
                   summary, vrVars, sortVars, extVars>>

Next == LoadSchema \/ Exists \/ Load \/ Validate \/ Security \/ Summary \/ Exit

Spec == Init /\ [][Next]_vars


---------------------------------------------------------------------------
(* Properties.                                                             *)

LastResult == validation_results[Len(validation_results)]

ResultTypes == {validation_results[i].config_type : i \in 1..Len(validation_results)}

StepsOf(t) == {trace[i].step : i \in {j \in 1..Len(trace) : trace[j].type = t}}

\* The order in which the types are declared to be processed.
DeclaredIndex(t) ==
    CASE t = "network" -> 1
      [] t = "email"   -> 2
      [] t = "domains" -> 3
      [] t = "sso"     -> 4

StepOrder(step) ==
    CASE step = "skip"     -> 0
      [] step = "load"     -> 1
      [] step = "validate" -> 2
      [] step = "security" -> 3

HasDefinition(sch, ct) ==
    sch.kind = "object" /\ sch.has_definitions /\ ct \in sch.definitions

\* C1 (SpecVR): in every state reachable from construction by add_error,
\* add_security_warning and mark_as_valid, errors is non-empty iff status
\* is invalid.
C1_StatusInvariant ==
    (result.errors # <<>>) <=> (result.status = "invalid")

\* C2 (SpecVR): once status is invalid, no operation on the result makes it
\* anything but invalid again.
C2_InvalidIsTerminal ==
    [][result.status = "invalid" => result'.status = "invalid"]_vars

\* C3 (Spec): the result validate_config returns was created pending, is
\* valid exactly when validation produced no violation and invalid
\* otherwise, invalid from the first error recorded on, and never pending.
C3_ValidateConfigStatus ==
    pc = "security" =>
        LET fresh  == ValidationResultDefault(cur, TemplatePath(cur))
            sorted == validate(config.violations).value
        IN  /\ fresh.status = "pending"
            /\ LastResult.status # "pending"
            /\ LastResult.status = "valid" <=> config.violations = <<>>
            /\ LastResult.status = "invalid" <=> config.violations # <<>>
            /\ \A k \in 1..Len(sorted) :
                  AddErrors(fresh, SubSeq(sorted, 1, k)).status = "invalid"

C3_Witness ==
    /\ pc = "security"
    /\ Len(config.violations) = 2
    /\ LastResult.status = "invalid"
    /\ Len(LastResult.errors) = 2

\* C4 (Spec): at the end of a run the exit code is 0 if every produced
\* result is valid and 1 if one is invalid; only the types whose file was
\* loaded have a result, so a run with every file missing exits 0.
C4_ExitCode ==
    pc = "exited" =>
        /\ exit_code \in {0, 1}
        /\ exit_code = 0 <=>
              \A i \in 1..Len(validation_results) :
                  validation_results[i].status = "valid"
        /\ exit_code = 1 <=>
              \E i \in 1..Len(validation_results) :
                  validation_results[i].status = "invalid"
        /\ ResultTypes = {t \in ConfigType : files[t] = "loaded"}
        /\ (\A t \in ConfigType : files[t] = "missing") => exit_code = 0

C4_Witness ==
    /\ pc = "exited"
    /\ \A t \in ConfigType : files[t] = "missing"
    /\ exit_code = 0

\* C5 (Spec): a type whose file does not exist gets no result and no load,
\* validation or security step, the run never ends at it, and a run that
\* reaches its end has examined every type and has loaded, validated and
\* security-checked each one whose file existed.
C5_MissingFileSkipped ==
    /\ \A t \in ConfigType :
          files[t] = "missing" =>
              /\ t \notin ResultTypes
              /\ StepsOf(t) = {"skip"}
              /\ pc \in {"aborted", "raised"} => cur # t
    /\ \A i \in 1..Len(trace) :
          (trace[i].step = "skip" /\ trace[i].type # "sso") =>
              IF i < Len(trace)
              THEN DeclaredIndex(trace[i + 1].type) = DeclaredIndex(trace[i].type) + 1
              ELSE pc \in {"exists", "load"}
    /\ pc = "exited" =>
          \A t \in ConfigType :
              /\ files[t] \in {"missing", "loaded"}
              /\ files[t] = "loaded" =>
                    /\ t \in ResultTypes
                    /\ StepsOf(t) = {"load", "validate", "security"}

C5_Witness ==
    /\ pc = "exited"
    /\ files["domains"] = "missing"
    /\ files["network"] = "loaded" /\ files["email"] = "loaded"
    /\ files["sso"] = "loaded"
    /\ Len(validation_results) = 3
    /\ "security" \in StepsOf("sso")

\* C6 as stated (Spec): a malformed configuration file does not stop the
\* run: the run goes on, and ends with the later types validated and a
\* non-zero exit code.
C6_ParseErrorContinues ==
    \A t \in ConfigType :
        files[t] = "malformed" =>
            /\ pc # "aborted"
            /\ pc = "exited" =>
                  /\ exit_code # 0
                  /\ \A u \in ConfigType :
                        (DeclaredIndex(u) > DeclaredIndex(t) /\ files[u] # "missing")
                            => "validate" \in StepsOf(u)

\* C6 as amended (Spec): a malformed configuration file ends the run at that
\* document with exit status 1: no result is recorded for it, no later type
\* is examined and no summary is generated.
C6_ParseErrorAborts ==
    \A t \in ConfigType :
        files[t] = "malformed" =>
            /\ pc = "aborted"
            /\ exit_code = 1
            /\ cur = t
            /\ trace[Len(trace)] = Step("load", t)
            /\ t \notin ResultTypes
            /\ \A u \in ConfigType :
                  DeclaredIndex(u) > DeclaredIndex(t) => files[u] = "unseen"
            /\ summary = NoSummary

C6_Witness ==
    /\ files["email"] = "malformed"
    /\ files["network"] = "loaded"
    /\ Len(validation_results) = 1
    /\ pc = "aborted"

\* C7 (Spec): a schema file that is missing or is not valid JSON ends the
\* run at once with a non-zero exit status: no configuration document is
\* loaded, no result is produced and no summary is generated.
C7_SchemaFailureAborts ==
    schema_file \in {"missing", "badjson"} =>
        /\ pc = "aborted"
        /\ exit_code = 1
        /\ schema = SchemaUnloaded
        /\ \A t \in ConfigType : files[t] = "unseen"
        /\ config = NoConfig
        /\ trace = <<>>
        /\ validation_results = <<>>
        /\ summary = NoSummary

C7_Witness ==
    /\ schema_file = "badjson"
    /\ pc = "aborted"
    /\ exit_code = 1

\* The config_type strings validate_config may be called with.
TypeStrings == ConfigType \cup {"storage"}

\* C8 (Spec): validate_config raises, and returns no result, for a
\* config_type that is not a ConfigType or has no entry under the schema's
\* definitions; in a run this ends the run with an uncaught exception: no
\* result, no recorded error, no skip, no summary.
C8_UnknownTypeAborts ==
    /\ pc = "validate" =>
          \A ct \in TypeStrings :
              (ct \notin ConfigType \/ ~HasDefinition(schema, ct)) =>
                  validate_config(config, schema, ct, TemplatePath(ct)).raised
                      \in {"ValueError", "KeyError", "TypeError"}
    /\ \A j \in 1..Len(trace) :
          (trace[j].step = "validate" /\ ~HasDefinition(schema, trace[j].type)) =>
              /\ j = Len(trace)
              /\ pc = "raised"
              /\ exit_code = 1
              /\ trace[j].type \notin ResultTypes
              /\ files[trace[j].type] = "loaded"
              /\ summary = NoSummary

C8_Witness ==
    /\ pc = "raised"
    /\ schema.kind = "object" /\ schema.has_definitions
    /\ cur = "domains" /\ "domains" \notin schema.definitions
    /\ trace[Len(trace)] = Step("validate", "domains")
    /\ Len(validation_results) = 2

\* C9 (Spec): the steps of a run are taken type by type in the order
\* network, email, domains, sso, and within a type as load, then
\* validation, then security checks; no step of a later type precedes a
\* step of an earlier one.
C9_DeclaredOrder ==
    /\ \A i, j \in 1..Len(trace) :
          i < j =>
              \/ DeclaredIndex(trace[i].type) < DeclaredIndex(trace[j].type)
              \/ /\ trace[i].type = trace[j].type
                 /\ StepOrder(trace[i].step) < StepOrder(trace[j].step)
    /\ \A j \in 1..Len(trace) :
          /\ trace[j].step = "validate" =>
                j > 1 /\ trace[j - 1] = Step("load", trace[j].type)
          /\ trace[j].step = "security" =>
                j > 1 /\ trace[j - 1] = Step("validate", trace[j].type)

C9_Witness ==
    /\ pc = "exited"
    /\ trace = <<Step("load", "network"), Step("validate", "network"),
                 Step("security", "network"),
                 Step("load", "email"), Step("validate", "email"),
                 Step("security", "email"),
                 Step("load", "domains"), Step("validate", "domains"),
                 Step("security", "domains"),
                 Step("load", "sso"), Step("validate", "sso"),
                 Step("security", "sso")>>

\* The orders in which iter_errors could yield the violations in errs.
Reorderings(errs) ==
    {[i \in 1..Len(errs) |-> errs[p[i]]] : p \in Permutations(1..Len(errs))}

\* C10 (SpecSort): validate returns the violations sorted by path,
\* lexicographically and element by element with a prefix first, for every
\* yielded sequence of violations with str and int path segments, and what
\* it returns is the same for every order the validator yields them in.
C10_SortedWhateverTheYieldOrder ==
    validated # NotValidated =>
        /\ validated.raised = "none"
        /\ Len(validated.value) = Len(yielded)
        /\ \A i \in 1..(Len(validated.value) - 1) :
              ~PathLess(validated.value[i + 1].path, validated.value[i].path)
        /\ \A q \in Reorderings(yielded) : validate(q) = validated

\* The type the last step of the trace worked on, and whether the security
\* check of the document has returned.
LastStep == trace[Len(trace)]
SecurityReturned ==
    trace # <<>> /\ LastStep.step = "security" /\ pc # "raised"

\* C12 (Spec): every result validate_config produced has its security
\* check executed, next or already, valid or not; once the check has
\* returned, the result still carries the schema verdict (invalid iff there
\* were violations, one error each) and the warnings a pristine result
\* would have been given for the document.
C12_NeitherPipelineSkips ==
    /\ \A i \in 1..Len(validation_results) :
          LET t == validation_results[i].config_type
          IN  \/ "security" \in StepsOf(t)
              \/ pc = "security" /\ i = Len(validation_results) /\ cur = t
    /\ SecurityReturned =>
          LET r == LastResult
              pristine == ValidationResultDefault(r.config_type, r.config_path)
          IN  /\ r.config_type = LastStep.type
              /\ r.status \in {"valid", "invalid"}
              /\ r.status = "invalid" <=> config.violations # <<>>
              /\ Len(r.errors) = Len(config.violations)
              /\ r.security_warnings =
                    check_security_requirements(config.value, pristine)
                        .value.security_warnings

C12_Witness ==
    /\ SecurityReturned
    /\ \E i, j \in 1..Len(validation_results) :
          /\ validation_results[i].status = "invalid"
          /\ validation_results[i].security_warnings # <<>>
          /\ validation_results[j].status = "valid"
          /\ validation_results[j].security_warnings # <<>>

---------------------------------------------------------------------------
(* SpecDoc: one document through validate_config and                       *)
(* check_security_requirements, as main runs them for the type at idx      *)
(* when the files of the types before it do not exist.                     *)

dNet(items)   == PyDict(items)
dSmtp(v)      == PyDict(<<Item("smtp", v)>>)
dSsl(v)       == PyDict(<<Item("ssl", v)>>)
dAuth(v)      == PyDict(<<Item("authentication", v)>>)
dMfa(v)       == Item("mfa", PyDict(<<Item("enabled", v)>>))
dLifetime(v)  == Item("session", PyDict(<<Item("lifetime", v)>>))

\* The document values of a type: what yaml.safe_load may return for its
\* file.
DocValues(t) ==
    CASE t = "network" ->
            {dNet(<<Item("allowed_ranges", PyList(<<PyStr("0.0.0.0/0")>>))>>),
             dNet(<<Item("a", PyStr("0.0.0.0/0")),
                    Item("b", PyList(<<PyStr("10.0.0.0/8"), PyStr("0.0.0.0/0")>>))>>),
             dNet(<<Item("nested", PyDict(<<Item("range", PyStr("0.0.0.0/0"))>>))>>),
             dNet(<<Item("nested", PyDict(<<Item("0.0.0.0/0", PyBool(TRUE))>>))>>),
             dNet(<<Item("cidr", PyStr("10.0.0.0/8"))>>),
             dNet(<<Item("0.0.0.0/0", PyStr("key only"))>>),
             dNet(<<Item("mask", PyInt(0)), Item("open", PyBool(FALSE))>>),
             EmptyDict,
             PyNone,
             PyList(<<PyStr("0.0.0.0/0")>>)}
      [] t = "email" ->
            {dSmtp(PyDict(<<Item("encryption", PyStr("none"))>>)),
             dSmtp(PyDict(<<Item("host", PyStr("mail")),
                            Item("encryption", PyStr("none"))>>)),
             dSmtp(PyDict(<<Item("encryption", PyStr("tls"))>>)),
             dSmtp(PyDict(<<Item("encryption", PyStr("NONE"))>>)),
             dSmtp(PyDict(<<Item("encryption", PyNone)>>)),
             dSmtp(PyDict(<<Item("host", PyStr("none"))>>)),
             dSmtp(EmptyDict),
             PyDict(<<Item("encryption", PyStr("none"))>>),
             EmptyDict,
             dSmtp(PyNone),
             dSmtp(PyStr("none")),
             PyNone}
      [] t = "domains" ->
            {dSsl(EmptyDict),
             EmptyDict,
             dSsl(PyDict(<<Item("hsts_enabled", PyBool(TRUE)),
                           Item("ocsp_stapling", PyBool(TRUE))>>)),
             dSsl(PyDict(<<Item("hsts_enabled", PyBool(TRUE))>>)),
             dSsl(PyDict(<<Item("ocsp_stapling", PyBool(TRUE))>>)),
             dSsl(PyDict(<<Item("hsts_enabled", PyBool(FALSE)),
                           Item("ocsp_stapling", PyBool(TRUE))>>)),
             dSsl(PyDict(<<Item("hsts_enabled", PyStr("yes")),
                           Item("ocsp_stapling", PyInt(0))>>)),
             dSsl(PyDict(<<Item("hsts_enabled", PyStr("")),
                           Item("ocsp_stapling", PyList(<<>>))>>)),
             dSsl(PyNone),
             dSsl(PyBool(TRUE)),
             PyList(<<>>)}
      [] t = "sso" ->
            {dAuth(PyDict(<<dMfa(PyBool(TRUE)), dLifetime(PyInt(90000))>>)),
             dAuth(PyDict(<<dMfa(PyBool(TRUE)), dLifetime(PyInt(3600))>>)),
             dAuth(PyDict(<<dMfa(PyBool(TRUE)), dLifetime(PyInt(86400))>>)),
             dAuth(PyDict(<<dMfa(PyBool(TRUE)), dLifetime(PyInt(86401))>>)),
             dAuth(PyDict(<<dMfa(PyBool(TRUE))>>)),
             dAuth(PyDict(<<dMfa(PyBool(FALSE)), dLifetime(PyInt(90000))>>)),
             dAuth(PyDict(<<dMfa(PyBool(FALSE)), dLifetime(PyInt(86400))>>)),
             dAuth(PyDict(<<dLifetime(PyInt(86401))>>)),
             dAuth(PyDict(<<Item("mfa", EmptyDict),
                            Item("session", EmptyDict)>>)),
             dAuth(PyDict(<<dMfa(PyBool(TRUE)), dLifetime(PyBool(TRUE))>>)),
             dAuth(EmptyDict),
             EmptyDict,
             dAuth(PyDict(<<dMfa(PyBool(TRUE)), dLifetime(PyStr("1d"))>>)),
             dAuth(PyDict(<<dLifetime(PyNone)>>)),
             dAuth(PyDict(<<Item("mfa", PyNone)>>)),
             dAuth(PyDict(<<Item("session", PyNone)>>)),
             dAuth(PyNone),
             PyNone}

\* Every value with no violation and with one, and an empty mapping with
\* every sequence of up to MaxViolations violations.
DocInputs(t) ==
    {Document(v, y) : v \in DocValues(t), y \in {<<>>, <<vA>>}}
        \cup {Document(EmptyDict, y) :
                  y \in SeqsUpTo(SortViolations, MaxViolations)}

\* main at `result = validate_config(...)` in iteration idx: the schema
\* defines every type, the files of the earlier types were missing, the
\* file of this type has been loaded.
DocInit ==
    /\ pc = "validate"
    /\ idx \in 1..Len(config_types)
    /\ schema_file = "ok"
    /\ schema = SchemaObject(TRUE, ConfigType)
    /\ files = [t \in ConfigType |->
                    IF \E i \in 1..(idx - 1) : config_types[i] = t
                    THEN "missing"
                    ELSE IF t = config_types[idx] THEN "loaded" ELSE "unseen"]
    /\ config \in DocInputs(config_types[idx])
    /\ validation_results = <<>>
    /\ trace = [i \in 1..idx |->
                    IF i < idx THEN Step("skip", config_types[i])
                    ELSE Step("load", config_types[i])]
    /\ summary = NoSummary
    /\ exit_code = NoExit
    /\ result = IdleResult
    /\ SortIdle
    /\ ExtIdle

DocNext == Validate \/ Security

SpecDoc == DocInit /\ [][DocNext]_vars

---------------------------------------------------------------------------
(* Properties of SpecDoc.                                                  *)

\* The rendering the specification gives for a violation.
RECURSIVE C11_Segments(_)
C11_Segments(path) ==
    IF path = <<>> THEN ""
    ELSE LET seg == IF Head(path).k = "int" THEN ToString(Head(path).n)
                    ELSE Head(path).s
         IN  IF Len(path) = 1 THEN seg
             ELSE seg \o " -> " \o C11_Segments(Tail(path))

C11_Rendering(v) == "Error at " \o C11_Segments(v.path) \o ": " \o v.message

\* The bijections of 1..n
C11_Permutations(n) ==
    {p \in [1..n -> 1..n] : \A i, j \in 1..n : i # j => p[i] # p[j]}

\* C11 (SpecDoc): the errors of the result validate_config returns are the
\* renderings of all the violations, one entry each, ordered by path with
\* ties in yield order; a violation with an empty path renders as
\* "Error at : " followed by its message.
C11_AllViolationsRendered ==
    pc = "security" =>
        LET vs == config.violations
            n  == Len(vs)
            es == LastResult.errors
        IN  /\ Len(es) = n
            /\ \E p \in C11_Permutations(n) :
                  /\ \A i \in 1..n : es[i] = C11_Rendering(vs[p[i]])
                  /\ \A i, j \in 1..n :
                        i < j =>
                            /\ ~PathLess(vs[p[j]].path, vs[p[i]].path)
                            /\ vs[p[i]].path = vs[p[j]].path => p[i] < p[j]
            /\ \A i \in 1..n :
                  vs[i].path = <<>> =>
                      \E k \in 1..n : es[k] = "Error at : " \o vs[i].message

\* The values found in document d under the keys of path, through mappings
\* only.
RECURSIVE ValuesAtPath(_, _)
ValuesAtPath(d, path) ==
    IF path = <<>> THEN {d}
    ELSE IF d.t # "dict" THEN {}
    ELSE UNION {ValuesAtPath(d.items[i].val, Tail(path)) :
                   i \in {j \in 1..Len(d.items) : d.items[j].key = Head(path)}}

\* The values Python takes for false.
FalsyValues ==
    {PyNone, PyBool(FALSE), PyInt(0), PyStr(""), PyList(<<>>), EmptyDict}

\* A setting is enabled when it is present with a value that is not falsy.
Enabled(d, path) == \E v \in ValuesAtPath(d, path) : v \notin FalsyValues

\* The warnings the security check added to the result of the document.
Warnings == LastResult.security_warnings

\* The text 0.0.0.0/0 occurs in a str, in an element of a list, or in a
\* key or a value of a mapping.
RECURSIVE C13_Mentions(_)
C13_Mentions(v) ==
    CASE v.t = "str"  -> Contains("0.0.0.0/0", v.s)
      [] v.t = "list" -> \E i \in 1..Len(v.l) : C13_Mentions(v.l[i])
      [] v.t = "dict" -> \E i \in 1..Len(v.items) :
                            \/ Contains("0.0.0.0/0", v.items[i].key)
                            \/ C13_Mentions(v.items[i].val)
      [] OTHER        -> FALSE

\* C13 (SpecDoc): for a network document the check adds one warning, which
\* mentions 0.0.0.0/0, when a value of the top-level mapping contains that
\* text once stringified, however many values do, and none otherwise.
C13_NetworkWarning ==
    (SecurityReturned /\ LastStep.type = "network") =>
        LET doc == config.value
            hit == \E i \in 1..Len(doc.items) : C13_Mentions(doc.items[i].val)
        IN  /\ hit => /\ Len(Warnings) = 1
                      /\ Contains("0.0.0.0/0", Warnings[1])
            /\ ~hit => Warnings = <<>>

C13_Witness ==
    /\ SecurityReturned
    /\ LastStep.type = "network"
    /\ Cardinality({i \in 1..Len(config.value.items) :
                      C13_Mentions(config.value.items[i].val)}) = 2
    /\ Len(Warnings) = 1

\* C14 (SpecDoc): for an email document the check adds one warning when
\* smtp.encryption is present and equal to "none", and none for any other
\* value of the field or when the field is absent.
C14_EmailWarning ==
    (SecurityReturned /\ LastStep.type = "email") =>
        LET encryption == ValuesAtPath(config.value, <<"smtp", "encryption">>)
        IN  /\ encryption = {PyStr("none")} =>
                  Warnings = <<"SMTP is configured without encryption">>
            /\ encryption # {PyStr("none")} => Warnings = <<>>

C14_Witness ==
    /\ SecurityReturned
    /\ LastStep.type = "email"
    /\ config.value = dSmtp(PyDict(<<Item("encryption", PyStr("none"))>>))
    /\ Len(Warnings) = 1

\* C15 (SpecDoc): for a domains document the check adds the HSTS warning
\* iff ssl.hsts_enabled is falsy or absent and the OCSP warning iff
\* ssl.ocsp_stapling is falsy or absent, each whatever the other, HSTS
\* first; ssl = {} gets both.
C15_DomainsWarnings ==
    (SecurityReturned /\ LastStep.type = "domains") =>
        LET hsts == Enabled(config.value, <<"ssl", "hsts_enabled">>)
            ocsp == Enabled(config.value, <<"ssl", "ocsp_stapling">>)
        IN  /\ Warnings =
                  (IF hsts THEN <<>> ELSE <<"HSTS is not enabled">>)
                      \o (IF ocsp THEN <<>>
                          ELSE <<"OCSP stapling is not enabled">>)
            /\ Len(Warnings) =
                  (IF hsts THEN 0 ELSE 1) + (IF ocsp THEN 0 ELSE 1)
            /\ config.value = dSsl(EmptyDict) => Len(Warnings) = 2

C15_Witness ==
    /\ SecurityReturned
    /\ LastStep.type = "domains"
    /\ config.value = dSsl(EmptyDict)
    /\ Warnings = <<"HSTS is not enabled", "OCSP stapling is not enabled">>

\* The lifetimes authentication.session.lifetime holds that are numbers.
C16_Lifetimes ==
    {v.n : v \in {w \in ValuesAtPath(config.value,
                        <<"authentication", "session", "lifetime">>) :
                     w.t = "int"}}

\* C16 (SpecDoc): for an sso document the check adds the MFA warning iff
\* authentication.mfa.enabled is falsy or absent, and the session warning
\* iff authentication.session.lifetime is greater than 86400: 86400 itself
\* adds none, MFA enabled with 90000 adds one warning, with 3600 none.
C16_SsoWarnings ==
    (SecurityReturned /\ LastStep.type = "sso") =>
        LET mfa  == Enabled(config.value, <<"authentication", "mfa", "enabled">>)
            long == \E n \in C16_Lifetimes : n > 86400
        IN  /\ Warnings =
                  (IF mfa THEN <<>> ELSE <<"MFA is not enabled for SSO">>)
                      \o (IF long THEN <<"Session lifetime exceeds 24 hours">>
                          ELSE <<>>)
            /\ (mfa /\ C16_Lifetimes = {86400}) => Warnings = <<>>
            /\ (mfa /\ C16_Lifetimes = {90000}) => Len(Warnings) = 1
            /\ (mfa /\ C16_Lifetimes = {3600}) => Warnings = <<>>

C16_Witness ==
    /\ SecurityReturned
    /\ LastStep.type = "sso"
    /\ config.value =
          dAuth(PyDict(<<dMfa(PyBool(TRUE)), dLifetime(PyInt(86400))>>))
    /\ Warnings = <<>>

\* C17 (SpecDoc): the security check of a document never ends by raising,
\* whatever the document.
C17_CheckNeverFails ==
    ~(trace # <<>> /\ LastStep.step = "security" /\ pc = "raised")

C11_Witness ==
    /\ pc = "security"
    /\ config.violations = <<vB, vA0, vRoot1>>
    /\ LastResult.errors =
          <<"Error at : 'a' is a required property",
            "Error at a -> 0: 2 is not of type 'string'",
            "Error at b: 5 is not of type 'string'">>

---------------------------------------------------------------------------
(* SpecSummary: generate_summary called on a list of ValidationResults,    *)
(* each as the constructor builds it from its arguments.                   *)

SummaryResults ==
    {ValidationResultNew(t, TemplatePath(t), st, SomeArg(es), SomeArg(ws)) :
        t \in ConfigType, st \in ValidationStatus,
        es \in {<<>>, <<"e1">>, <<"e2">>}, ws \in {<<>>, <<"w1">>}}

SummaryInit ==
    /\ pc = "summary"
    /\ validation_results \in SeqsUpTo(SummaryResults, MaxResults)
    /\ idx = 1
    /\ schema_file = "unread"
    /\ schema = SchemaUnloaded
    /\ files = [t \in ConfigType |-> "unseen"]
    /\ config = NoConfig
    /\ trace = <<>>
    /\ summary = NoSummary
    /\ exit_code = NoExit
    /\ result = IdleResult
    /\ SortIdle
    /\ ExtIdle

SummaryNext == Summary

SpecSummary == SummaryInit /\ [][SummaryNext]_vars

\* All the errors of the results of type t, in the order of the list.
RECURSIVE C19_ErrorsOf(_, _)
C19_ErrorsOf(rs, t) ==
    IF rs = <<>> THEN <<>>
    ELSE (IF Head(rs).config_type = t THEN Head(rs).errors ELSE <<>>)
             \o C19_ErrorsOf(Tail(rs), t)

RECURSIVE C19_Sum(_)
C19_Sum(ns) == IF ns = <<>> THEN 0 ELSE Head(ns) + C19_Sum(Tail(ns))

\* C19 (SpecSummary): the summary of any list of results reports its
\* length, the number of results whose status is invalid, the sum of the
\* lengths of the warning lists, under each type with an error all the
\* errors of that type, and the warnings of exactly the results that have
\* one.
C19_SummaryIsAFold ==
    summary.generated =>
        LET rs == validation_results
            n  == Len(rs)
        IN  /\ summary.total_configs = n
            /\ summary.invalid_configs =
                  Cardinality({i \in 1..n : rs[i].status = "invalid"})
            /\ summary.total_warnings =
                  C19_Sum([i \in 1..n |-> Len(rs[i].security_warnings)])
            /\ DOMAIN summary.errors_by_type =
                  {t \in ConfigType : C19_ErrorsOf(rs, t) # <<>>}
            /\ \A t \in DOMAIN summary.errors_by_type :
                  summary.errors_by_type[t] = C19_ErrorsOf(rs, t)
            /\ {summary.warnings_listed[k].config_type :
                    k \in 1..Len(summary.warnings_listed)} =
                  {rs[i].config_type :
                      i \in {j \in 1..n : rs[j].security_warnings # <<>>}}

---------------------------------------------------------------------------
(* detect_k8s.py: KubernetesDetector.  The attributes of the detector hold *)
(* Python values; what the system answers (which commands exist, how a     *)
(* command ends, what it prints) is chosen anew at each call.              *)

\* How subprocess.run(cmd, ...) ends: the command exits with a return code
\* and its output, or the call raises.
Exited(rc, stdout) == [kind |-> "exit", rc |-> rc, stdout |-> stdout]
Failed(kind) == [kind |-> kind, rc |-> 0, stdout |-> ""]

RunFailures == {"TimeoutExpired", "SubprocessError", "FileNotFoundError"}

Procs(outputs) ==
    {Exited(rc, o) : rc \in {0, 1}, o \in outputs}
        \cup {Failed(k) : k \in RunFailures}

\* subprocess.run may also raise what run_command does not catch, such as
\* the PermissionError of a file that may not be executed.
RunUncaught == {"PermissionError"}

run_command_raises(proc) == proc.kind \in RunUncaught

\* A variant of run_command that takes every command that ran for a
\* success, whatever its return code.
run_command_ignores_rc(proc) ==
    IF proc.kind = "exit" THEN <<TRUE, proc.stdout>> ELSE <<FALSE, "">>

\* run_command(cmd): (success, output)
run_command(proc) ==
    IF proc.kind = "exit" THEN <<proc.rc = 0, proc.stdout>> ELSE <<FALSE, "">>

\* What `<kubectl> version --client --output=json` may print.
VersionOutputs ==
    {"{\"clientVersion\": {\"gitVersion\": \"v1.28.2\"}}",
     "{\"clientVersion\": {}}",
     "{}",
     "{\"clientVersion\": {\"gitVersion\": null}}",
     "[]",
     "Client Version: v1.28.2",
     "{\"clientVersion\":",
     ""}

\* json.loads(output) on those outputs
json_loads(output) ==
    CASE output = "{\"clientVersion\": {\"gitVersion\": \"v1.28.2\"}}" ->
            Returned(PyDict(<<Item("clientVersion",
                        PyDict(<<Item("gitVersion", PyStr("v1.28.2"))>>))>>))
      [] output = "{\"clientVersion\": {}}" ->
            Returned(PyDict(<<Item("clientVersion", EmptyDict)>>))
      [] output = "{}" -> Returned(EmptyDict)
      [] output = "{\"clientVersion\": {\"gitVersion\": null}}" ->
            Returned(PyDict(<<Item("clientVersion",
                        PyDict(<<Item("gitVersion", PyNone)>>))>>))
      [] output = "[]" -> Returned(PyList(<<>>))
      [] OTHER -> Raised("JSONDecodeError")

\* get_kubectl_version(kubectl_cmd): except (JSONDecodeError, KeyError)
\* lets the AttributeError of a .get on a value that is no dict through.
get_kubectl_version(proc) ==
    LET success == run_command(proc)[1]
        output  == run_command(proc)[2]
    IN  IF success /\ output # ""
        THEN LET version_data == json_loads(output)
             IN  IF version_data.raised # "none"
                 THEN Returned(PyStr("unknown"))
                 ELSE IF version_data.value.t # "dict"
                 THEN Raised("AttributeError")
                 ELSE LET cv == DictGet(version_data.value, "clientVersion",
                                        EmptyDict)
                      IN  IF cv.t # "dict" THEN Raised("AttributeError")
                          ELSE Returned(DictGet(cv, "gitVersion",
                                                PyStr("unknown")))
        ELSE Returned(PyStr("unknown"))

\* A detector call: the detector as the call left it, what it returned and
\* what it raised.
Det(d, ret, e) == [raised |-> e, value |-> d, ret |-> ret]

\* self.k8s_distro = distro; self.k8s_version = self.get_kubectl_version(..)
SetDistroAndVersion(d, distro, version) ==
    LET d1 == [d EXCEPT !.k8s_distro = PyStr(distro)]
        v  == get_kubectl_version(version)
    IN  IF v.raised # "none" THEN Det(d1, FALSE, v.raised)
        ELSE Det([d1 EXCEPT !.k8s_version = v.value], TRUE, "none")

Microk8sEnvs ==
    [microk8s : BOOLEAN, status : Procs({"microk8s is running"}),
     kubectl : BOOLEAN, version : Procs(VersionOutputs)]

\* A variant of detect_microk8s that names the distribution as soon as the
\* command exists, before it knows that microk8s is running.
detect_microk8s_early(d, env) ==
    IF ~env.microk8s THEN Det(d, FALSE, "none")
    ELSE LET d1 == [d EXCEPT !.k8s_distro = PyStr("microk8s")]
         IN  IF run_command(env.status)[1]
             THEN IF env.kubectl
                  THEN SetDistroAndVersion(d, "microk8s", env.version)
                  ELSE Det(d1, TRUE, "none")
             ELSE Det(d1, FALSE, "none")

detect_microk8s(d, env) ==
    IF ~env.microk8s THEN Det(d, FALSE, "none")
    ELSE IF run_command(env.status)[1]
    THEN IF env.kubectl
         THEN SetDistroAndVersion(d, "microk8s", env.version)
         ELSE Det([d EXCEPT !.k8s_distro = PyStr("microk8s")], TRUE, "none")
    ELSE Det(d, FALSE, "none")

K3sEnvs ==
    [k3s : BOOLEAN, client : Procs({"Client Version: v1.28.2+k3s1"}),
     k3s_kubectl : BOOLEAN, version : Procs(VersionOutputs)]

detect_k3s(d, env) ==
    IF env.k3s /\ run_command(env.client)[1]
    THEN SetDistroAndVersion(d, "k3s", env.version)
    ELSE IF env.k3s_kubectl
    THEN SetDistroAndVersion(d, "k3s", env.version)
    ELSE Det(d, FALSE, "none")

\* str.split("\n")[0]
RECURSIVE FirstLine(_)
FirstLine(str) ==
    IF str = "" THEN ""
    ELSE IF SubSeq(str, 1, 1) = "\n" THEN ""
    ELSE SubSeq(str, 1, 1) \o FirstLine(SubSeq(str, 2, Len(str)))

\* shutil.which("kubectl"): a path, or None
NoPath == "None"
KubectlPaths ==
    {NoPath, "/usr/bin/kubectl", "/usr/local/bin/kubectl",
     "/snap/microk8s/current/kubectl", "/var/lib/rancher/k3s/bin/kubectl"}

ClusterOutputs == {"", "control plane at https://10.0.0.1\nCoreDNS at ..."}

UpstreamEnvs ==
    [which : KubectlPaths, client : Procs({"Client Version: v1.28.2"}),
     version : Procs(VersionOutputs), cluster : Procs(ClusterOutputs)]

detect_upstream_kubectl(d, env) ==
    IF env.which = NoPath THEN Det(d, FALSE, "none")
    ELSE IF /\ ~Contains("microk8s", env.which)
            /\ ~Contains("k3s", env.which)
            /\ run_command(env.client)[1]
    THEN LET r  == SetDistroAndVersion(d, "upstream", env.version)
             cs == run_command(env.cluster)[1]
             co == run_command(env.cluster)[2]
         IN  IF r.raised # "none" THEN r
             ELSE IF cs /\ co # ""
             THEN Det([r.value EXCEPT !.k8s_cluster_info = PyStr(FirstLine(co))],
                      TRUE, "none")
             ELSE r
    ELSE Det(d, FALSE, "none")

custom_paths ==
    <<"/usr/local/bin/kubectl", "/opt/kubectl/bin/kubectl",
      "/home/user/.local/bin/kubectl", "/snap/bin/kubectl">>

CustomPathSet == {custom_paths[i] : i \in 1..Len(custom_paths)}

\* executable: the custom paths that are executable files; works: those
\* whose `version --client` succeeds.
CustomEnvs ==
    [which : {NoPath, "/usr/bin/kubectl", "/usr/local/bin/kubectl"},
     executable : SUBSET CustomPathSet, works : SUBSET CustomPathSet,
     version : Procs(VersionOutputs)]

detect_custom_kubectl(d, env) ==
    LET I == {i \in 1..Len(custom_paths) :
                 /\ custom_paths[i] \in env.executable
                 /\ custom_paths[i] # env.which
                 /\ custom_paths[i] \in env.works}
    IN  IF I = {} THEN Det(d, FALSE, "none")
        ELSE LET path == custom_paths[CHOOSE i \in I : \A j \in I : i <= j]
                 r    == SetDistroAndVersion(d, "custom", env.version)
             IN  IF r.raised # "none" THEN r
                 ELSE Det([r.value EXCEPT !.custom_kubectl_path = PyStr(path)],
                          TRUE, "none")

\* str.strip()
Whitespace == {" ", "\n", "\t"}

RECURSIVE LStrip(_)
LStrip(str) ==
    IF str # "" /\ SubSeq(str, 1, 1) \in Whitespace
    THEN LStrip(SubSeq(str, 2, Len(str))) ELSE str

RECURSIVE RStrip(_)
RStrip(str) ==
    IF str # "" /\ SubSeq(str, Len(str), Len(str)) \in Whitespace
    THEN RStrip(SubSeq(str, 1, Len(str) - 1)) ELSE str

Strip(str) == RStrip(LStrip(str))

ContextOutputs == {"", "microk8s\n", " \n"}

\* The distributions kubectl_cmd_map has a command for.
kubectl_cmd_map == {"microk8s", "k3s", "upstream", "custom"}

get_kubectl_context(d, proc) ==
    IF d.k8s_distro.t = "str" /\ d.k8s_distro.s \in kubectl_cmd_map
    THEN LET success == run_command(proc)[1]
             output  == run_command(proc)[2]
         IN  [d EXCEPT !.k8s_current_context =
                 PyStr(IF success /\ output # "" THEN Strip(output)
                       ELSE "no-context")]
    ELSE d

---------------------------------------------------------------------------
(* SpecK8s: one run of detect_k8s.main, a step for each method detect()    *)
(* calls.                                                                  *)

\* Detection priority: microk8s -> k3s -> upstream -> custom
DetectOrder ==
    <<"detect_microk8s", "detect_k3s", "detect_upstream_kubectl",
      "detect_custom_kubectl">>

\* The operand of the `or` chain after detector m, or the statement after
\* the chain when every operand was false.
NextDetector(m) ==
    LET i == CHOOSE k \in 1..Len(DetectOrder) : DetectOrder[k] = m
    IN  IF i < Len(DetectOrder) THEN DetectOrder[i + 1] ELSE "not_detected"

\* A variant of DetectedOr that evaluates every operand (`|` for `or`).
DetectedOrEager(ret, m) ==
    IF NextDetector(m) # "not_detected" THEN NextDetector(m)
    ELSE IF ret THEN "get_kubectl_context" ELSE "not_detected"

\* a() or b() or ...: a true operand ends the chain with detected true.
DetectedOr(ret, m) ==
    IF ret THEN "get_kubectl_context" ELSE NextDetector(m)

Call(m, ret) == [method |-> m, ret |-> ret]

\* The call of detector m with outcome r, inside detect(); an exception
\* leaves detect() and main() and ends the script with status 1.
DetectorStep(m, r) ==
    /\ detector' = r.value
    /\ calls' = Append(calls,
                    Call(m, IF r.raised # "none" THEN "raised"
                            ELSE IF r.ret THEN "True" ELSE "False"))
    /\ IF r.raised # "none"
       THEN /\ kpc' = "raised"
            /\ kexit' = 1
       ELSE /\ kpc' = DetectedOr(r.ret, m)
            /\ UNCHANGED kexit
    /\ UNCHANGED <<kresults, vrVars, sortVars, runVars, polVars>>

\* detector = KubernetesDetector(); results = detector.detect()
K8sInit ==
    /\ detector = DetectorNew
    /\ kpc = DetectOrder[1]
    /\ calls = <<>>
    /\ kresults = NoResults
    /\ kexit = NoExit
    /\ result = IdleResult
    /\ SortIdle
    /\ RunIdle
    /\ PolicyIdle

DetectMicrok8s ==
    /\ kpc = "detect_microk8s"
    /\ \E env \in Microk8sEnvs :
          DetectorStep("detect_microk8s", detect_microk8s(detector, env))

DetectK3s ==
    /\ kpc = "detect_k3s"
    /\ \E env \in K3sEnvs :
          DetectorStep("detect_k3s", detect_k3s(detector, env))

DetectUpstreamKubectl ==
    /\ kpc = "detect_upstream_kubectl"
    /\ \E env \in UpstreamEnvs :
          DetectorStep("detect_upstream_kubectl",
                       detect_upstream_kubectl(detector, env))

DetectCustomKubectl ==
    /\ kpc = "detect_custom_kubectl"
    /\ \E env \in CustomEnvs :
          DetectorStep("detect_custom_kubectl",
                       detect_custom_kubectl(detector, env))

\* if not detected: self.k8s_distro = "none"
NotDetected ==
    /\ kpc = "not_detected"
    /\ detector' = [detector EXCEPT !.k8s_distro = PyStr("none")]
    /\ kpc' = "results"
    /\ UNCHANGED <<calls, kresults, kexit, vrVars, sortVars, runVars, polVars>>

\* else: self.get_kubectl_context()
GetKubectlContext ==
    /\ kpc = "get_kubectl_context"
    /\ \E proc \in Procs(ContextOutputs) :
          detector' = get_kubectl_context(detector, proc)
    /\ calls' = Append(calls, Call("get_kubectl_context", "None"))
    /\ kpc' = "results"
    /\ UNCHANGED <<kresults, kexit, vrVars, sortVars, runVars, polVars>>

\* results = {...}, with CUSTOM_KUBECTL_PATH when the path is set
ResultsOf(d) ==
    LET base == [K8S_DISTRO |-> d.k8s_distro,
                 K8S_VERSION |-> d.k8s_version,
                 K8S_CLUSTER_INFO |-> d.k8s_cluster_info,
                 K8S_CURRENT_CONTEXT |-> d.k8s_current_context]
    IN  IF Truthy(d.custom_kubectl_path)
        THEN base @@ [CUSTOM_KUBECTL_PATH |-> d.custom_kubectl_path]
        ELSE base

\* os.environ[key] = value raises TypeError for a value that is no str.
EnvironRaises(results) == \E key \in DOMAIN results : results[key].t # "str"

\* The rest of detect(): the results, the environment variables, return.
Results ==
    /\ kpc = "results"
    /\ IF EnvironRaises(ResultsOf(detector))
       THEN /\ kpc' = "raised"
            /\ kexit' = 1
            /\ UNCHANGED kresults
       ELSE /\ kresults' = ResultsOf(detector)
            /\ kpc' = "main_return"
            /\ UNCHANGED kexit
    /\ UNCHANGED <<detector, calls, vrVars, sortVars, runVars, polVars>>

\* A variant of MainStatus that tests the distro for truth
\* (`return 0 if results["K8S_DISTRO"] else 1`).
MainStatusTruthy(results) == IF Truthy(results.K8S_DISTRO) THEN 0 ELSE 1

\* return 0 if results["K8S_DISTRO"] != "none" else 1
MainStatus(results) == IF results.K8S_DISTRO # PyStr("none") THEN 0 ELSE 1

MainReturn ==
    /\ kpc = "main_return"
    /\ kexit' = MainStatus(kresults)
    /\ kpc' = "done"
    /\ UNCHANGED <<detector, calls, kresults, vrVars, sortVars, runVars, polVars>>

K8sNext ==
    \/ DetectMicrok8s \/ DetectK3s \/ DetectUpstreamKubectl
    \/ DetectCustomKubectl \/ NotDetected \/ GetKubectlContext
    \/ Results \/ MainReturn

SpecK8s == K8sInit /\ [][K8sNext]_vars

---------------------------------------------------------------------------
(* Properties of SpecK8s.                                                  *)

DetectorCalls == {i \in 1..Len(calls) : calls[i].method # "get_kubectl_context"}
ContextCalls  == {i \in 1..Len(calls) : calls[i].method = "get_kubectl_context"}
Succeeded     == {i \in DetectorCalls : calls[i].ret = "True"}

\* The distribution each detector stands for.
DistroOf(m) ==
    CASE m = "detect_microk8s"         -> "microk8s"
      [] m = "detect_k3s"              -> "k3s"
      [] m = "detect_upstream_kubectl" -> "upstream"
      [] m = "detect_custom_kubectl"   -> "custom"

\* detect() has gone past the detectors and the context lookup.
PastDetection == kpc \in {"results", "main_return", "done"}

\* C20 (SpecK8s): the detectors are called in the order microk8s, k3s,
\* upstream, custom, each only after all the earlier ones returned False,
\* so none after the first success; the K8S_DISTRO reported is that of the
\* detector that succeeded; get_kubectl_context is called once when one
\* succeeded and only then.
C20_FirstSuccessWins ==
    LET priority == <<"detect_microk8s", "detect_k3s",
                      "detect_upstream_kubectl", "detect_custom_kubectl">>
    IN  /\ \A i \in DetectorCalls :
              /\ i <= Len(priority)
              /\ calls[i].method = priority[i]
              /\ \A j \in 1..(i - 1) : calls[j].ret = "False"
        /\ Cardinality(Succeeded) <= 1
        /\ \A i \in ContextCalls : Succeeded # {} /\ i = Len(calls)
        /\ PastDetection =>
              Cardinality(ContextCalls) = Cardinality(Succeeded)
        /\ kresults # NoResults =>
              \A i \in Succeeded :
                  kresults.K8S_DISTRO = PyStr(DistroOf(calls[i].method))

C20_Witness ==
    /\ kpc = "done"
    /\ Len(calls) = 4
    /\ calls[1] = Call("detect_microk8s", "False")
    /\ calls[2] = Call("detect_k3s", "False")
    /\ calls[3] = Call("detect_upstream_kubectl", "True")
    /\ calls[4] = Call("get_kubectl_context", "None")
    /\ kresults.K8S_DISTRO = PyStr("upstream")

\* All four detectors were called and returned False.
AllFailed ==
    /\ Cardinality(DetectorCalls) = Len(DetectOrder)
    /\ \A i \in DetectorCalls : calls[i].ret = "False"

\* C21 (SpecK8s): when all four detectors fail, detect() sets and reports
\* K8S_DISTRO = "none", get_kubectl_context is not called and the context
\* stays empty, and main returns 1; main returns 0 exactly when the
\* K8S_DISTRO reported is not "none".
C21_NoneDetected ==
    /\ (AllFailed /\ PastDetection) =>
          /\ detector.k8s_distro = PyStr("none")
          /\ ContextCalls = {}
          /\ detector.k8s_current_context = PyStr("")
    /\ (AllFailed /\ kpc \in {"main_return", "done"}) =>
          /\ kresults.K8S_DISTRO = PyStr("none")
          /\ kresults.K8S_CURRENT_CONTEXT = PyStr("")
    /\ kpc = "done" =>
          /\ kexit \in {0, 1}
          /\ kexit = 0 <=> kresults.K8S_DISTRO # PyStr("none")
          /\ AllFailed => kexit = 1

C21_Witness ==
    /\ kpc = "done"
    /\ AllFailed
    /\ kresults.K8S_DISTRO = PyStr("none")
    /\ kexit = 1

---------------------------------------------------------------------------
(* SpecDetectors: the detectors called on a detector in any state, as the  *)
(* tests call them, from any of them on.                                   *)

DetectorStates ==
    [k8s_distro : {PyStr(""), PyStr("k3s")},
     k8s_version : {PyStr(""), PyStr("v1.27.0")},
     k8s_cluster_info : {PyStr("")},
     k8s_current_context : {PyStr("")},
     custom_kubectl_path : {PyStr(""), PyStr("/snap/bin/kubectl")}]

DetectorsInit ==
    /\ detector \in DetectorStates
    /\ kpc \in {DetectOrder[i] : i \in 1..Len(DetectOrder)}
    /\ calls = <<>>
    /\ kresults = NoResults
    /\ kexit = NoExit
    /\ result = IdleResult
    /\ SortIdle
    /\ RunIdle
    /\ PolicyIdle

DetectorsNext ==
    \/ DetectMicrok8s \/ DetectK3s \/ DetectUpstreamKubectl
    \/ DetectCustomKubectl

SpecDetectors == DetectorsInit /\ [][DetectorsNext]_vars

\* C22 (SpecDetectors): a detector that returns False leaves k8s_distro,
\* k8s_version and custom_kubectl_path as they were; one that returns True
\* has set k8s_distro to the name of its own distribution.
C22_DetectorFrame ==
    [][(Len(calls') = Len(calls) + 1
            /\ calls'[Len(calls')].method # "get_kubectl_context") =>
          LET c == calls'[Len(calls')]
          IN  /\ c.ret = "False" =>
                    /\ detector'.k8s_distro = detector.k8s_distro
                    /\ detector'.k8s_version = detector.k8s_version
                    /\ detector'.custom_kubectl_path =
                          detector.custom_kubectl_path
              /\ c.ret = "True" =>
                    detector'.k8s_distro = PyStr(DistroOf(c.method))]_vars

C22_Witness ==
    /\ Len(calls) = 2
    /\ calls[1] = Call("detect_microk8s", "False")
    /\ calls[2] = Call("detect_k3s", "True")
    /\ detector.k8s_distro = PyStr("k3s")
    /\ detector.custom_kubectl_path = PyStr("/snap/bin/kubectl")

---------------------------------------------------------------------------
(* SpecCommands: run_command and get_kubectl_version called on a detector, *)
(* as the tests call them, each call recorded with how the command ended   *)
(* and what the method returned or raised.                                 *)

CommandProcs == Procs(VersionOutputs) \cup {Failed(k) : k \in RunUncaught}

CommandCall(m, proc, out) == [method |-> m, proc |-> proc, out |-> out]

CommandsInit ==
    /\ detector = DetectorNew
    /\ kpc = "commands"
    /\ calls = <<>>
    /\ kresults = NoResults
    /\ kexit = NoExit
    /\ result = IdleResult
    /\ SortIdle
    /\ RunIdle
    /\ PolicyIdle

RunCommand ==
    /\ kpc = "commands"
    /\ Len(calls) < MaxCalls
    /\ \E proc \in CommandProcs :
          calls' = Append(calls,
              CommandCall("run_command", proc,
                  IF run_command_raises(proc) THEN Raised(proc.kind)
                  ELSE Returned(run_command(proc))))
    /\ UNCHANGED <<detector, kpc, kresults, kexit, vrVars, sortVars, runVars, polVars>>

GetKubectlVersion ==
    /\ kpc = "commands"
    /\ Len(calls) < MaxCalls
    /\ \E proc \in CommandProcs :
          calls' = Append(calls,
              CommandCall("get_kubectl_version", proc,
                  IF run_command_raises(proc) THEN Raised(proc.kind)
                  ELSE get_kubectl_version(proc)))
    /\ UNCHANGED <<detector, kpc, kresults, kexit, vrVars, sortVars, runVars, polVars>>

CommandsNext == RunCommand \/ GetKubectlVersion

SpecCommands == CommandsInit /\ [][CommandsNext]_vars

\* The outputs that are not JSON.
C23_NotJson == {"Client Version: v1.28.2", "{\"clientVersion\":"}

---------------------------------------------------------------------------
(* Properties of SpecVR: the lists of a ValidationResult.                  *)

\* list q is list p with one element appended
OneAppended(p, q) == Len(q) = Len(p) + 1 /\ SubSeq(q, 1, Len(p)) = p

\* C24 (SpecVR): add_error appends one element to errors and leaves
\* security_warnings alone; add_security_warning appends one element to
\* security_warnings and leaves errors, status and is_valid alone;
\* mark_as_valid changes neither list; no step removes or reorders what a
\* list held.
C24_AppendOnlyLists ==
    [][/\ VRAddError =>
              /\ OneAppended(result.errors, result'.errors)
              /\ result'.security_warnings = result.security_warnings
       /\ VRAddSecurityWarning =>
              /\ OneAppended(result.security_warnings,
                             result'.security_warnings)
              /\ result'.errors = result.errors
              /\ result'.status = result.status
              /\ is_valid(result') = is_valid(result)
       /\ VRMarkAsValid =>
              /\ result'.errors = result.errors
              /\ result'.security_warnings = result.security_warnings
       /\ SubSeq(result'.errors, 1, Len(result.errors)) = result.errors
       /\ SubSeq(result'.security_warnings, 1,
                 Len(result.security_warnings)) = result.security_warnings
       /\ Len(result'.errors) >= Len(result.errors)
       /\ Len(result'.security_warnings) >= Len(result.security_warnings)
      ]_vars

C24_Witness ==
    /\ result.errors = <<"e1", "e2">>
    /\ result.security_warnings = <<"w2", "w1">>
    /\ result.status = "valid"

---------------------------------------------------------------------------
(* Properties of Spec: the results collected by a run.                     *)

\* The loop of main has ended without the run being aborted.
LoopDone == pc \in {"summary", "exit", "exited"}

\* C25 (Spec): at every point of a run validation_results holds at most one
\* result for a type and its results are in the order network, email,
\* domains, sso; when the loop has ended without the run being aborted it
\* holds a result for exactly the types whose file existed.
C25_OneResultPerType ==
    LET n == Len(validation_results)
        declared == <<"network", "email", "domains", "sso">>
        position(t) == CHOOSE k \in 1..Len(declared) : declared[k] = t
    IN  /\ \A i, j \in 1..n :
              i # j => validation_results[i].config_type
                          # validation_results[j].config_type
        /\ \A i, j \in 1..n :
              i < j => position(validation_results[i].config_type)
                          < position(validation_results[j].config_type)
        /\ LoopDone =>
              /\ \A t \in ConfigType : files[t] \in {"missing", "loaded"}
              /\ {validation_results[i].config_type : i \in 1..n}
                    = {t \in ConfigType : files[t] # "missing"}

C25_Witness ==
    /\ pc = "exited"
    /\ Len(validation_results) = 2
    /\ validation_results[1].config_type = "email"
    /\ validation_results[2].config_type = "sso"
    /\ files["network"] = "missing"
    /\ files["domains"] = "missing"

---------------------------------------------------------------------------
(* security/policies/network.py: FirewallRule, NetworkSegment,             *)
(* NetworkPolicyChecker, create_default_policy.                            *)

FirewallRule(port, protocol, direction, action, description) ==
    [port |-> port, protocol |-> protocol, direction |-> direction,
     action |-> action, description |-> description]

\* FirewallRule(port=..., protocol=..., description=...)
FirewallRuleDefault(port, protocol, description) ==
    FirewallRule(port, protocol, "in", "allow", description)

NetworkSegment(name, cidr, allowed_ports, allowed_protocols) ==
    [name |-> name, cidr |-> cidr, allowed_ports |-> allowed_ports,
     allowed_protocols |-> allowed_protocols]

add_firewall_rule(c, rule) ==
    [c EXCEPT !.firewall_rules = Append(@, rule)]

add_network_segment(c, segment) ==
    [c EXCEPT !.network_segments = Append(@, segment)]

RECURSIVE AddRules(_, _)
AddRules(c, rules) ==
    IF rules = <<>> THEN c
    ELSE AddRules(add_firewall_rule(c, Head(rules)), Tail(rules))

RECURSIVE AddSegments(_, _)
AddSegments(c, segments) ==
    IF segments = <<>> THEN c
    ELSE AddSegments(add_network_segment(c, Head(segments)), Tail(segments))

default_rules ==
    <<FirewallRuleDefault(22, "tcp", "SSH access"),
      FirewallRuleDefault(80, "tcp", "HTTP access"),
      FirewallRuleDefault(443, "tcp", "HTTPS access"),
      FirewallRuleDefault(6443, "tcp", "Kubernetes API")>>

default_segments ==
    <<NetworkSegment("control-plane", "10.0.0.0/24", <<6443, 2379, 2380>>,
                     <<"tcp">>),
      NetworkSegment("worker-nodes", "10.0.1.0/24", <<10250, 30000, 32767>>,
                     <<"tcp">>)>>

create_default_policy ==
    AddSegments(AddRules(CheckerNew, default_rules), default_segments)

\* What `netstat -tuln` may print: nothing listening, every port of the
\* default policy listening, and 8080 alone.
NetstatOutputs ==
    {"",
     "0.0.0.0:22\n0.0.0.0:80\n0.0.0.0:443\n0.0.0.0:6443\n0.0.0.0:2379\n"
         \o "0.0.0.0:2380\n0.0.0.0:10250\n0.0.0.0:30000\n0.0.0.0:32767\n",
     ":::8080\n"}

\* How subprocess.run(["netstat", "-tuln"], check=True) ends: netstat exits
\* (a non-zero code raising CalledProcessError), or is not installed.
NetstatProcs ==
    {Exited(0, o) : o \in NetstatOutputs}
        \cup {Exited(1, ""), Failed("FileNotFoundError")}

\* check_port_open(port, protocol): the protocol is not looked at.
check_port_open(port, protocol, proc) ==
    IF proc.kind # "exit" THEN Raised(proc.kind)
    ELSE IF proc.rc # 0 THEN Returned(FALSE)
    ELSE Returned(Contains(":" \o ToString(port), proc.stdout))

\* key = f"{rule.protocol}_{rule.port}"
RuleKey(rule) == rule.protocol \o "_" \o ToString(rule.port)

\* results[key] = is_open
SetStatus(results, key, is_open) ==
    [k \in DOMAIN results \cup {key} |->
        IF k = key THEN is_open ELSE results[k]]

---------------------------------------------------------------------------
(* security/scripts/apply_network_policies.py: apply_policies, main.       *)

\* for port in segment.allowed_ports: for protocol in
\* segment.allowed_protocols: the probes of a segment, in order.
RECURSIVE PortProbes(_, _)
PortProbes(ports, protocols) ==
    IF ports = <<>> THEN <<>>
    ELSE [i \in 1..Len(protocols) |->
             [port |-> Head(ports), protocol |-> protocols[i]]]
             \o PortProbes(Tail(ports), protocols)

RECURSIVE SegmentProbes(_)
SegmentProbes(segments) ==
    IF segments = <<>> THEN <<>>
    ELSE PortProbes(Head(segments).allowed_ports,
                    Head(segments).allowed_protocols)
             \o SegmentProbes(Tail(segments))

Probe(port, protocol, report) ==
    [port |-> port, protocol |-> protocol, report |-> report]

\* What a probe that returned reported.
Report(is_open) == IF is_open THEN "open" ELSE "closed"

\* Where apply_policies goes on after n probes of check_firewall_rules.
AfterRuleProbe(c, n) ==
    IF n < Len(c.firewall_rules) THEN "check_firewall_rules"
    ELSE "rule_results"

\* Where apply_policies goes on after n probes of the segments.
AfterSegmentProbe(c, n) ==
    IF n < Len(SegmentProbes(c.network_segments)) THEN "check_segments"
    ELSE "return"

---------------------------------------------------------------------------
(* SpecPolicies: one run of apply_network_policies.main, or one call of    *)
(* apply_policies on a checker built with add_firewall_rule and            *)
(* add_network_segment; a step for each call of check_port_open.           *)

\* The checkers apply_policies is called on directly: none configured, the
\* checker of test_network_policy_checker, two rules for one port that
\* differ in direction, and a segment of two ports and two protocols.
DirectCheckers ==
    {CheckerNew,
     add_network_segment(
         add_firewall_rule(CheckerNew,
             FirewallRuleDefault(8080, "tcp", "")),
         NetworkSegment("test", "10.0.0.0/24", <<8080>>, <<"tcp">>)),
     AddRules(CheckerNew,
         <<FirewallRule(80, "tcp", "in", "allow", ""),
           FirewallRule(80, "tcp", "out", "allow", "")>>),
     add_network_segment(CheckerNew,
         NetworkSegment("dns", "10.0.2.0/24", <<22, 80>>, <<"tcp", "udp">>))}

PoliciesInit ==
    /\ \/ /\ caller = "main"
          /\ ppc = "setup_logging"
          /\ checker = CheckerNew
       \/ /\ caller = "direct"
          /\ ppc = "apply_policies"
          /\ checker \in DirectCheckers
    /\ rule_status = <<>>
    /\ policy_success = TRUE
    /\ probes = <<>>
    /\ applied = "pending"
    /\ pexit = NoExit
    /\ result = IdleResult
    /\ SortIdle
    /\ RunIdle
    /\ K8sIdle

otherVars == <<vrVars, sortVars, runVars, k8sVars>>

\* setup_logging(), outside the try of main: the FileHandler raises when
\* the directory .local does not exist, and the script ends with status 1.
SetupLogging ==
    /\ ppc = "setup_logging"
    /\ \E local_exists \in BOOLEAN :
          IF local_exists
          THEN ppc' = "create_default_policy" /\ UNCHANGED pexit
          ELSE ppc' = "raised" /\ pexit' = 1
    /\ UNCHANGED <<checker, caller, rule_status, policy_success, probes,
                   applied, otherVars>>

\* checker = create_default_policy()
CreateDefaultPolicy ==
    /\ ppc = "create_default_policy"
    /\ checker' = create_default_policy
    /\ ppc' = "apply_policies"
    /\ UNCHANGED <<caller, rule_status, policy_success, probes, applied,
                   pexit, otherVars>>

\* apply_policies(checker): success = True; results = {}
ApplyPolicies ==
    /\ ppc = "apply_policies"
    /\ policy_success' = TRUE
    /\ rule_status' = <<>>
    /\ ppc' = AfterRuleProbe(checker, 0)
    /\ UNCHANGED <<checker, caller, probes, applied, pexit, otherVars>>

\* One iteration of the loop of check_firewall_rules; what check_port_open
\* raises leaves check_firewall_rules and is caught by apply_policies
\* (success = False).
CheckFirewallRule ==
    /\ ppc = "check_firewall_rules"
    /\ LET rule == checker.firewall_rules[Len(probes) + 1]
       IN  \E proc \in NetstatProcs :
              LET is_open == check_port_open(rule.port, rule.protocol, proc)
              IN  IF is_open.raised # "none"
                  THEN /\ probes' = Append(probes,
                              Probe(rule.port, rule.protocol, "raised"))
                       /\ policy_success' = FALSE
                       /\ ppc' = "return"
                       /\ UNCHANGED rule_status
                  ELSE /\ probes' = Append(probes,
                              Probe(rule.port, rule.protocol,
                                    Report(is_open.value)))
                       /\ rule_status' = SetStatus(rule_status, RuleKey(rule),
                                                   is_open.value)
                       /\ ppc' = AfterRuleProbe(checker, Len(probes) + 1)
                       /\ UNCHANGED policy_success
    /\ UNCHANGED <<checker, caller, applied, pexit, otherVars>>

\* for rule_name, is_compliant in rule_status.items():
\*     if not is_compliant: success = False
RuleResults ==
    /\ ppc = "rule_results"
    /\ policy_success' =
          (policy_success /\ \A k \in DOMAIN rule_status : rule_status[k])
    /\ ppc' = AfterSegmentProbe(checker, 0)
    /\ UNCHANGED <<checker, caller, rule_status, probes, applied, pexit,
                   otherVars>>

\* One iteration of the innermost loop over the segments.
CheckSegmentPort ==
    /\ ppc = "check_segments"
    /\ LET n == Len(probes) - Len(checker.firewall_rules)
           p == SegmentProbes(checker.network_segments)[n + 1]
       IN  \E proc \in NetstatProcs :
              LET is_open == check_port_open(p.port, p.protocol, proc)
              IN  IF is_open.raised # "none"
                  THEN /\ probes' = Append(probes,
                              Probe(p.port, p.protocol, "raised"))
                       /\ policy_success' = FALSE
                       /\ ppc' = "return"
                  ELSE /\ probes' = Append(probes,
                              Probe(p.port, p.protocol, Report(is_open.value)))
                       /\ policy_success' = (policy_success /\ is_open.value)
                       /\ ppc' = AfterSegmentProbe(checker, n + 1)
    /\ UNCHANGED <<checker, caller, rule_status, applied, pexit, otherVars>>

\* return success
ApplyPoliciesReturn ==
    /\ ppc = "return"
    /\ applied' = IF policy_success THEN "True" ELSE "False"
    /\ ppc' = IF caller = "main" THEN "main_report" ELSE "done"
    /\ UNCHANGED <<checker, caller, rule_status, policy_success, probes,
                   pexit, otherVars>>

\* if success: return 0 else: return 1
MainExit(returned) == IF returned = "True" THEN 0 ELSE 1

MainReport ==
    /\ ppc = "main_report"
    /\ pexit' = MainExit(applied)
    /\ ppc' = "done"
    /\ UNCHANGED <<checker, caller, rule_status, policy_success, probes,
                   applied, otherVars>>

PoliciesNext ==
    \/ SetupLogging \/ CreateDefaultPolicy \/ ApplyPolicies
    \/ CheckFirewallRule \/ RuleResults \/ CheckSegmentPort
    \/ ApplyPoliciesReturn \/ MainReport

SpecPolicies == PoliciesInit /\ [][PoliciesNext]_vars

\* The probes apply_policies has to make on the checker.
ProbesDue ==
    Len(checker.firewall_rules) + Len(SegmentProbes(checker.network_segments))

\* C26 (SpecPolicies): apply_policies returns True iff every firewall rule
\* and every (port, protocol) pair of every segment was probed and reported
\* open; a probe that raises makes it return False; main returns 0 exactly
\* when apply_policies returned True.
C26_AppliedIffAllOpen ==
    /\ applied # "pending" =>
          /\ applied = "True" <=>
                /\ Len(probes) = ProbesDue
                /\ \A i \in 1..Len(probes) : probes[i].report = "open"
          /\ (\E i \in 1..Len(probes) : probes[i].report = "raised") =>
                applied = "False"
    /\ (\E i \in 1..Len(probes) : probes[i].report = "raised") =>
          ppc # "raised"
    /\ (caller = "main" /\ ppc = "done") =>
          (pexit = 0 <=> applied = "True")

===========================================================================
